---- MODULE Spec2Model ----
(***************************************************************************)
(* A model of the write-ahead-log key-value store of py-wal-pattern:       *)
(*   pywalpattern/service/wal/wal.py      (class WAL)                      *)
(*   pywalpattern/service/wal/storage.py  (class KeyValueStore)            *)
(*   pywalpattern/service/server/server.py (KVServer._log_cleanup_task)    *)
(*                                                                         *)
(* The log directory is a function from segment numbers (the integer in    *)
(* "<n>.log") to the list of entries stored in that file.  Sizes are       *)
(* counted in records: every framed record is one unit, and segment_size   *)
(* is the number of units a segment may hold before the next append        *)
(* rotates it (segment_size = 0 is a threshold smaller than one record).   *)
(* A store operation is split at the points where the process can die:     *)
(* pc names the statement the thread holding the store lock is at.         *)
(* A frame that is only partly on disk is an item of its file that carries *)
(* what the reader decodes from it (see Torn and read_segment).            *)
(***************************************************************************)
EXTENDS Integers, Sequences, FiniteSets, TLC

\* ------------------------------------------------------------------ bounds
MaxSeq == 13
MaxOps == 6
MaxStoreOps == 7
MaxAppends == 6
MaxMapOps == 5
MaxTornOps == 4
MaxFaults == 1
MaxMissing == 2
MaxCodecSeq == 2
MaxThreadOps == 4
MaxFaultOps == 5
MaxAppendFaults == 2
MaxServerOps == 3
MaxIterations == 2
MaxLogLen == 3
MaxWalFaultOps == 4

Keys == {"a", "b"}
Values == {"1"}
None == "None"

\* the values a delete returns
True == "True"
False == "False"

\* values a client may store: strings, and null (put accepts Any)
MapValues == {"1", "2", None}

\* segment_size regimes (in records): every record exceeds the threshold / three records fit
SegmentSizes == {0, 3}

VARIABLES
    files,          \* log directory: segment number -> entries of "<n>.log"
    snapshot,       \* snapshot.json: [state, seq_num, data]
    seq_num,        \* WAL.seq_num
    current_file,   \* WAL.current_file: [name, linked, detached]
    segment_size,   \* WAL.segment_size
    data,           \* KeyValueStore.data, a dict in insertion order
    low_water_mark, \* KeyValueStore.low_water_mark
    lock,           \* owner of KeyValueStore.lock
    pc,             \* statement the lock holder is at
    arg,            \* arguments of the operation in flight
    ret,            \* value returned by the last finished operation
    entries,        \* list returned by the last read_all_entries call
    lastEvent,      \* the operation that finished last
    wrote,          \* entries written to the log since the operation started
    hiSeq,          \* largest seq_num of any record ever written
    del,            \* the last delete_old_segments call, if it was the last step
    expect,         \* mappings a recovery may legitimately produce
    everDeleted,    \* delete_old_segments has removed a file
    returned,       \* a put or a delete of a present key has returned
    afterCkpt,      \* records put/delete wrote since the last checkpoint returned
    torn,           \* the damage done to a segment file, if any
    codec,          \* a log entry, its serialized payload and what deserialize made of it
    threads,        \* client threads: the call each is in, and the order the lock was taken
    opsLeft         \* operations that may still be started

walVars == <<files, seq_num, current_file, segment_size>>
storeVars == <<snapshot, data, low_water_mark, lock, pc, arg>>
obsVars == <<ret, entries, lastEvent, wrote, hiSeq, del, expect, everDeleted, returned,
            afterCkpt, torn, codec, threads, opsLeft>>
vars == <<files, snapshot, seq_num, current_file, segment_size, data, low_water_mark,
          lock, pc, arg, ret, entries, lastEvent, wrote, hiSeq, del, expect,
          everDeleted, returned, afterCkpt, torn, codec, threads, opsLeft>>

\* ------------------------------------------------------------ dict helpers
Max(a, b) == IF a > b THEN a ELSE b

DictHas(d, k) == \E i \in 1..Len(d) : d[i].key = k

DictGet(d, k) ==
    IF DictHas(d, k) THEN (CHOOSE e \in {d[i] : i \in 1..Len(d)} : e.key = k).value
    ELSE None

DictPut(d, k, v) ==
    IF DictHas(d, k)
    THEN [i \in 1..Len(d) |-> IF d[i].key = k THEN [key |-> k, value |-> v] ELSE d[i]]
    ELSE Append(d, [key |-> k, value |-> v])

DictDel(d, k) == SelectSeq(d, LAMBDA e : e.key # k)

\* dict equality ignores insertion order
AsMap(d) == [k \in Keys |-> DictGet(d, k)]

\* ------------------------------------------------------- file name ordering
RECURSIVE Digits(_)
Digits(n) == IF n < 10 THEN <<n>> ELSE Append(Digits(n \div 10), n % 10)

\* "<n>.log" as character codes: '.' sorts below every digit
FileName(n) == [i \in 1..Len(Digits(n)) |-> Digits(n)[i] + 1] \o <<0>>

StrLess(s, t) ==
    \/ \E i \in 1..Len(s) :
          /\ i <= Len(t)
          /\ \A j \in 1..(i - 1) : s[j] = t[j]
          /\ s[i] < t[i]
    \/ /\ Len(s) < Len(t)
       /\ \A j \in 1..Len(s) : s[j] = t[j]

FileLess(m, n) == StrLess(FileName(m), FileName(n))

RECURSIVE SortNames(_)
SortNames(S) ==
    IF S = {} THEN <<>>
    ELSE LET m == CHOOSE x \in S : \A y \in S : x = y \/ FileLess(x, y)
         IN  <<m>> \o SortNames(S \ {m})

\* sorted([f for f in os.listdir(log_dir) if f.endswith(".log")])
sorted_log_files(fs) == SortNames(DOMAIN fs)

\* --------------------------------------------------------------------- WAL
\* buffer: what the file object still holds after a flush that failed
NoFile == [name |-> -1, linked |-> FALSE, detached |-> <<>>, buffer |-> <<>>]

Entry(s, op, k, v) == [seq_num |-> s, op_type |-> op, key |-> k, value |-> v]

init_from_disk(fs) ==
    LET log_files == sorted_log_files(fs)
    IN  IF Len(log_files) > 0 THEN log_files[Len(log_files)] ELSE 0

\* open("<seq_num>.log", "ab+"): creates the file when it does not exist
open_current_file(fs, s) ==
    [files        |-> IF s \in DOMAIN fs THEN fs ELSE fs @@ (s :> <<>>),
     current_file |-> [name |-> s, linked |-> TRUE, detached |-> <<>>, buffer |-> <<>>]]

\* WAL(log_dir): _init_from_disk then _open_current_file
WAL_init(fs) ==
    LET s == init_from_disk(fs)
        o == open_current_file(fs, s)
    IN  [files |-> o.files, seq_num |-> s, current_file |-> o.current_file]

\* bytes behind the handle: the directory entry, or the unlinked inode
HandleContent(fs, cf) == IF cf.linked THEN fs[cf.name] ELSE cf.detached

rotate_log(fs, s) ==
    LET o == open_current_file(fs, s + 1)
    IN  [files |-> o.files, seq_num |-> s + 1, current_file |-> o.current_file]

\* current_file.flush() when it succeeds: the bytes an earlier failed flush left in
\* the buffer go out first and complete the frame that was cut short
Flushed(fs, cf) ==
    LET c == HandleContent(fs, cf)
    IN  IF cf.buffer = <<>> THEN c ELSE SubSeq(c, 1, Len(c) - 1) \o cf.buffer

\* WAL.append: the state of the WAL after the call, the entry written, the value returned
append(fs, s, cf, size, op, k, v) ==
    LET e    == Entry(s + 1, op, k, v)
        c    == Append(Flushed(fs, cf), e)
        fs1  == IF cf.linked THEN [fs EXCEPT ![cf.name] = c] ELSE fs
        cf1  == IF cf.linked THEN [cf EXCEPT !.buffer = <<>>]
                ELSE [cf EXCEPT !.detached = c, !.buffer = <<>>]
        tell == Len(HandleContent(fs1, cf1))
        w    == IF tell > size
                THEN rotate_log(fs1, s + 1)
                ELSE [files |-> fs1, seq_num |-> s + 1, current_file |-> cf1]
    IN  [files |-> w.files, seq_num |-> w.seq_num, current_file |-> w.current_file,
         entry |-> e, result |-> w.seq_num]

\* a frame that is not whole on disk, for the entry e that was being written:
\*   prefix = "zero":   only 1 to 3 bytes of the length prefix are there, all of
\*                      them zero (the high-order bytes of a small length)
\*   prefix = "length": the prefix announces a length and fewer body bytes follow;
\*                      missing counts, in frames, the bytes needed to complete it
Torn(e, p, m) ==
    [seq_num |-> e.seq_num, op_type |-> e.op_type, key |-> e.key, value |-> e.value,
     prefix |-> p, missing |-> m]

IsTorn(x) == "prefix" \in DOMAIN x

Frames(items) == Len(SelectSeq(items, LAMBDA x : ~IsTorn(x)))

\* the while loop of read_all_entries over one file: the entries collected, and
\* whether CompressedLogEntry.deserialize raised
RECURSIVE read_segment(_)
read_segment(items) ==
    IF items = <<>> THEN [entries |-> <<>>, raised |-> FALSE]
    ELSE LET x == Head(items)
         IN  IF ~IsTorn(x)
             THEN LET r == read_segment(Tail(items))
                  IN  [entries |-> <<x>> \o r.entries, raised |-> r.raised]
             ELSE IF x.prefix = "zero"
             THEN \* length = 0, f.read(0) = b"", deserialize(b"") fails on data[0]
                  [entries |-> <<>>, raised |-> TRUE]
             ELSE IF Frames(Tail(items)) >= x.missing
             THEN \* f.read(length) runs into the following frames: undecodable bytes
                  [entries |-> <<>>, raised |-> TRUE]
             ELSE \* len(entry_data) != length: break
                  [entries |-> <<>>, raised |-> FALSE]

RECURSIVE ConcatFiles(_, _)
ConcatFiles(fs, names) ==
    IF names = <<>> THEN <<>>
    ELSE read_segment(fs[Head(names)]).entries \o ConcatFiles(fs, Tail(names))

\* the list read_all_entries returns when no exception leaves it
read_all_entries(fs) == ConcatFiles(fs, sorted_log_files(fs))

\* read_all_entries raises: deserialize fails in one of the files
read_all_raises(fs) == \E n \in DOMAIN fs : read_segment(fs[n]).raised

\* a freshness check that accepts every snapshot
is_snapshot_fresh_always(snapshot_seq_num, s) == TRUE

is_snapshot_fresh(snapshot_seq_num, s) == snapshot_seq_num = s

\* a cleanup that also removes the segment numbered low_water_mark
segments_to_delete_inclusive(fs, s, lwm, snapshot_seq_num) ==
    IF ~is_snapshot_fresh(snapshot_seq_num, s) THEN {}
    ELSE {n \in DOMAIN fs : n <= lwm}

\* the segment numbers delete_old_segments removes
segments_to_delete(fs, s, lwm, snapshot_seq_num) ==
    IF ~is_snapshot_fresh(snapshot_seq_num, s) THEN {}
    ELSE {n \in DOMAIN fs : n < lwm}

delete_old_segments(fs, s, cf, lwm, snapshot_seq_num) ==
    LET gone == segments_to_delete(fs, s, lwm, snapshot_seq_num)
    IN  [files        |-> [n \in (DOMAIN fs) \ gone |-> fs[n]],
         current_file |-> IF cf.linked /\ cf.name \in gone
                          THEN [cf EXCEPT !.linked = FALSE, !.detached = fs[cf.name]]
                          ELSE cf,
         removed      |-> gone]

\* ------------------------------------------------------------ record codec
\* Python values are tagged with their type; v is the text of the payload:
\*   str "1", None, int 1, list ["a"], tuple ("a",)
PyStr(x) == [t |-> "str", v |-> x]
PyNone == [t |-> "none", v |-> "None"]
PyInt(x) == [t |-> "int", v |-> x]
PyList(x) == [t |-> "list", v |-> x]
PyTuple(x) == [t |-> "tuple", v |-> x]

\* f"{value}", the text that enters the checksum
str(x) ==
    IF x.t = "list" THEN "['" \o x.v \o "']"
    ELSE IF x.t = "tuple" THEN "('" \o x.v \o "',)"
    ELSE x.v

\* json.dumps of a value: a tuple is written as an array, as a list is
json_dumps(x) ==
    IF x.t = "str" THEN [t |-> "string", v |-> x.v]
    ELSE IF x.t = "none" THEN [t |-> "null", v |-> "null"]
    ELSE IF x.t = "int" THEN [t |-> "number", v |-> x.v]
    ELSE [t |-> "array", v |-> x.v]

\* json.loads of a value: an array is read as a list
json_loads(j) ==
    IF j.t = "string" THEN PyStr(j.v)
    ELSE IF j.t = "null" THEN PyNone
    ELSE IF j.t = "number" THEN PyInt(j.v)
    ELSE PyList(j.v)

\* OperationType.value and OperationType(n)
OperationValue(op) == IF op = "PUT" THEN 1 ELSE 2
OperationType(n) == IF n = 1 THEN "PUT" ELSE "DELETE"

CURRENT_FORMAT_VERSION == 1

\* zlib.crc32 of the formatted fields, taken as the text it is computed from
calculate_checksum(e) ==
    ToString(e.seq_num) \o ToString(OperationValue(e.op_type)) \o e.key \o str(e.value)
        \o e.timestamp

\* CompressedLogEntry(seq_num, op_type, key, value, compression_config=cfg) at time now
CompressedLogEntry(s, op, k, v, now, cfg) ==
    LET e == [seq_num |-> s, op_type |-> op, key |-> k, value |-> v, timestamp |-> now]
    IN  [seq_num |-> s, op_type |-> op, key |-> k, value |-> v, timestamp |-> now,
         checksum |-> calculate_checksum(e), format_version |-> CURRENT_FORMAT_VERSION,
         compression_type |-> 0, compression_config |-> cfg]

\* CompressedLogEntry.to_dict: the JSON object of the entry
to_dict(e) ==
    [seq_num |-> e.seq_num, op_type |-> OperationValue(e.op_type), key |-> e.key,
     value |-> json_dumps(e.value), timestamp |-> e.timestamp, checksum |-> e.checksum,
     format_version |-> e.format_version, compression_type |-> e.compression_type]

\* CompressedLogEntry.serialize: the algorithm byte, how the body is packed, the JSON object
serialize(e) ==
    [algo |-> e.compression_config, packed |-> e.compression_config, json |-> to_dict(e)]

NoEntry == CompressedLogEntry(0, "PUT", None, PyNone, "0.0", 0)
NoPayload == serialize(NoEntry)
Raise(err) == [ok |-> FALSE, error |-> err, entry |-> NoEntry]

\* LogEntry.from_dict after CompressedLogEntry.from_dict has popped compression_type
from_dict(d, compression_type) ==
    IF "seq_num" \notin DOMAIN d \/ "op_type" \notin DOMAIN d THEN Raise("KeyError")
    ELSE IF d.op_type \notin {1, 2} THEN Raise("ValueError")
    ELSE IF "key" \notin DOMAIN d \/ "timestamp" \notin DOMAIN d THEN Raise("KeyError")
    ELSE LET e == [seq_num   |-> d.seq_num,
                   op_type   |-> OperationType(d.op_type),
                   key       |-> d.key,
                   value     |-> IF "value" \in DOMAIN d THEN json_loads(d.value) ELSE PyNone,
                   timestamp |-> d.timestamp]
         IN  [ok |-> TRUE, error |-> "none",
              entry |-> [seq_num |-> e.seq_num, op_type |-> e.op_type, key |-> e.key,
                         value |-> e.value, timestamp |-> e.timestamp,
                         checksum |-> IF "checksum" \in DOMAIN d THEN d.checksum
                                      ELSE calculate_checksum(e),
                         format_version |-> IF "format_version" \in DOMAIN d
                                            THEN d.format_version
                                            ELSE CURRENT_FORMAT_VERSION,
                         compression_type |-> compression_type,
                         compression_config |-> compression_type]]

\* CompressedLogEntry.deserialize: the entry, or the exception raised
deserialize(p) ==
    IF p.algo \notin {0, 1} THEN Raise("ValueError")
    ELSE IF p.algo # p.packed THEN Raise("DecodeError")
    ELSE LET ct == IF "compression_type" \in DOMAIN p.json THEN p.json.compression_type ELSE 0
         IN  IF ct \notin {0, 1} THEN Raise("ValueError")
             ELSE LET r == from_dict(p.json, ct)
                  IN  IF ~r.ok THEN r
                      ELSE IF r.entry.checksum # calculate_checksum(r.entry)
                      THEN Raise("ChecksumError")
                      ELSE r

NoCodec == [stage |-> "none", entry |-> NoEntry, payload |-> NoPayload,
            altered |-> [kind |-> "none", field |-> "none"], result |-> Raise("none")]

\* ----------------------------------------------------------------- threads
Threads == {"t1", "t2"}

\* a thread outside the store
NoCall == [pc |-> "idle", key |-> None, value |-> None, seq_num |-> 0]

\* the compactor thread before its first test of self.running
NoCleanup == [pc |-> "check", low_water_mark |-> 0, snapshot_seq_num |-> -1, after_stop |-> 0]

NoThreads == [call |-> [t \in Threads |-> NoCall], acquired |-> <<>>,
              running |-> TRUE, cleanup |-> NoCleanup]

\* ------------------------------------------------------------------- store
NoSnapshot == [state |-> "absent", seq_num |-> -1, data |-> <<>>]

get_snapshot_seq_num(snap) == IF snap.state = "absent" THEN -1 ELSE snap.seq_num

RECURSIVE apply_entries_tombstone(_, _)
RECURSIVE apply_entries(_, _)
\* a replay whose DELETE of an absent key leaves a tombstone value under the key
apply_entries_tombstone(es, d) ==
    IF es = <<>> THEN d
    ELSE LET e == Head(es)
         IN  apply_entries_tombstone(Tail(es),
                 IF e.op_type = "PUT" THEN DictPut(d, e.key, e.value)
                 ELSE IF DictHas(d, e.key) THEN DictDel(d, e.key)
                 ELSE DictPut(d, e.key, None))

\* the loop of _recover_from_wal over the entries read
apply_entries(es, d) ==
    IF es = <<>> THEN d
    ELSE LET e == Head(es)
         IN  apply_entries(Tail(es),
                 IF e.op_type = "PUT" THEN DictPut(d, e.key, e.value)
                 ELSE IF e.op_type = "DELETE" /\ DictHas(d, e.key) THEN DictDel(d, e.key)
                 ELSE d)

recover_from_wal(fs, d) == apply_entries(read_all_entries(fs), d)

\* KeyValueStore(data_dir): the first WAL, _load_snapshot (second WAL and a
\* replay), then the second replay of __init__
KeyValueStore_init(fs, snap) ==
    LET w1 == WAL_init(fs)
        d0 == IF snap.state = "ok" THEN snap.data ELSE <<>>
        w2 == WAL_init(w1.files)
        d1 == recover_from_wal(w2.files, d0)
        d2 == recover_from_wal(w2.files, d1)
    IN  [ok           |-> snap.state # "partial" /\ ~read_all_raises(w1.files),
         files        |-> w1.files,
         seq_num      |-> IF snap.state = "partial" THEN w1.seq_num ELSE w2.seq_num,
         current_file |-> IF snap.state = "partial" THEN w1.current_file ELSE w2.current_file,
         data         |-> IF snap.state = "partial" THEN <<>> ELSE d2]

NoDel == [called |-> FALSE, by |-> "none", low_water_mark |-> 0, snapshot_seq_num |-> 0,
          wal_seq_num |-> 0, snapshot_exists |-> FALSE, before |-> {}, removed |-> {},
          removed_seqs |-> {}]

DelCall(who, fs, s, lwm, snap, gone) ==
    [called |-> TRUE, by |-> who, low_water_mark |-> lwm,
     snapshot_seq_num |-> get_snapshot_seq_num(snap), wal_seq_num |-> s,
     snapshot_exists |-> snap.state = "ok", before |-> DOMAIN fs, removed |-> gone,
     removed_seqs |-> UNION {{fs[n][i].seq_num : i \in 1..Len(fs[n])} : n \in gone}]

NoArg == [key |-> None, value |-> None, i |-> 0]

\* no segment file has been damaged
NoTorn == [count |-> 0, kind |-> "none", segment |-> -1, names |-> {}, base |-> <<>>]

\* no checkpoint has returned on this store object
NoCkpt == [on |-> FALSE, recs |-> <<>>]

InitState(sizes, budget) ==
    /\ files = (0 :> <<>>)
    /\ snapshot = NoSnapshot
    /\ seq_num = 0
    /\ current_file = [name |-> 0, linked |-> TRUE, detached |-> <<>>, buffer |-> <<>>]
    /\ segment_size \in sizes
    /\ data = <<>>
    /\ low_water_mark = 0
    /\ lock = "free"
    /\ pc = "idle"
    /\ arg = NoArg
    /\ ret = None
    /\ entries = <<>>
    /\ lastEvent = "init"
    /\ wrote = <<>>
    /\ hiSeq = 0
    /\ del = NoDel
    /\ expect = {}
    /\ everDeleted = FALSE
    /\ returned = FALSE
    /\ afterCkpt = NoCkpt
    /\ torn = NoTorn
    /\ codec = NoCodec
    /\ threads = NoThreads
    /\ opsLeft = budget

\* KeyValueStore(data_dir) on an empty directory
Init == InitState(SegmentSizes, MaxOps)

CanStart == pc = "idle" /\ lock = "free" /\ opsLeft > 0
CanAppend == seq_num + 2 <= MaxSeq

\* self.wal.current_file is an open file object
HandleOpen == current_file # NoFile

\* a put that updates the mapping first and never logs
put_memory_first(k, v) ==
    /\ CanStart /\ CanAppend
    /\ data' = DictPut(data, k, v)
    /\ wrote' = <<>>
    /\ lock' = "client"
    /\ pc' = "put_mem"
    /\ arg' = [key |-> k, value |-> v, i |-> 0]
    /\ lastEvent' = "put_log"
    /\ del' = NoDel
    /\ opsLeft' = opsLeft - 1
    /\ UNCHANGED <<files, snapshot, seq_num, current_file, segment_size, low_water_mark,
                   ret, entries, hiSeq, expect, everDeleted, returned,
                   afterCkpt, torn, codec, threads>>

\* a put that runs without taking the store lock
put_unlocked(k, v) ==
    /\ opsLeft > 0 /\ CanAppend /\ HandleOpen
    /\ LET w == append(files, seq_num, current_file, segment_size, "PUT", k, v)
       IN  /\ files' = w.files
           /\ seq_num' = w.seq_num
           /\ current_file' = w.current_file
           /\ wrote' = Append(wrote, w.entry)
           /\ hiSeq' = Max(hiSeq, w.entry.seq_num)
    /\ data' = DictPut(data, k, v)
    /\ returned' = TRUE
    /\ opsLeft' = opsLeft - 1
    /\ UNCHANGED <<snapshot, segment_size, low_water_mark, lock, pc, arg, ret, entries,
                   lastEvent, del, expect, everDeleted, afterCkpt, torn, codec, threads>>

\* put, first statement: self.wal.append(OperationType.PUT, key, value)
put_log(k, v) ==
    /\ CanStart /\ CanAppend /\ HandleOpen
    /\ LET w == append(files, seq_num, current_file, segment_size, "PUT", k, v)
       IN  /\ files' = w.files
           /\ seq_num' = w.seq_num
           /\ current_file' = w.current_file
           /\ wrote' = <<w.entry>>
           /\ hiSeq' = Max(hiSeq, w.entry.seq_num)
    /\ lock' = "client"
    /\ pc' = "put_mem"
    /\ arg' = [key |-> k, value |-> v, i |-> 0]
    /\ lastEvent' = "put_log"
    /\ del' = NoDel
    /\ opsLeft' = opsLeft - 1
    /\ UNCHANGED <<snapshot, segment_size, data, low_water_mark, ret, entries, expect,
                   everDeleted, returned, torn, codec, threads>>
    /\ afterCkpt' = IF afterCkpt.on
                    THEN [afterCkpt EXCEPT !.recs = Append(@, Entry(seq_num + 1, "PUT", k, v))]
                    ELSE afterCkpt

\* a put that keeps the old value of a key that is already mapped
put_mem_setdefault ==
    /\ pc = "put_mem"
    /\ data' = IF DictHas(data, arg.key) THEN data ELSE DictPut(data, arg.key, arg.value)
    /\ lock' = "free"
    /\ pc' = "idle"
    /\ ret' = None
    /\ lastEvent' = "put"
    /\ del' = NoDel
    /\ UNCHANGED <<files, snapshot, seq_num, current_file, segment_size, low_water_mark,
                   arg, entries, wrote, hiSeq, expect, everDeleted, opsLeft,
                   afterCkpt, torn, codec, threads>>
    /\ returned' = TRUE

\* put, second statement: self.data[key] = value, then the lock is released
put_mem ==
    /\ pc = "put_mem"
    /\ data' = DictPut(data, arg.key, arg.value)
    /\ lock' = "free"
    /\ pc' = "idle"
    /\ ret' = None
    /\ lastEvent' = "put"
    /\ del' = NoDel
    /\ UNCHANGED <<files, snapshot, seq_num, current_file, segment_size, low_water_mark,
                   arg, entries, wrote, hiSeq, expect, everDeleted, opsLeft,
                   afterCkpt, torn, codec, threads>>
    /\ returned' = TRUE

Put == (\E k \in Keys, v \in Values : put_log(k, v)) \/ put_mem

\* a delete of an absent key that logs a DELETE record before returning False
delete_miss_logged(k) ==
    /\ CanStart /\ CanAppend
    /\ ~DictHas(data, k)
    /\ LET w == append(files, seq_num, current_file, segment_size, "DELETE", k, None)
       IN  /\ files' = w.files
           /\ seq_num' = w.seq_num
           /\ current_file' = w.current_file
           /\ wrote' = <<w.entry>>
           /\ hiSeq' = Max(hiSeq, w.entry.seq_num)
    /\ ret' = False
    /\ arg' = [key |-> k, value |-> None, i |-> 0]
    /\ lastEvent' = "delete_miss"
    /\ del' = NoDel
    /\ opsLeft' = opsLeft - 1
    /\ UNCHANGED <<snapshot, segment_size, data, low_water_mark, lock, pc, entries, expect,
                   everDeleted, returned,
                   afterCkpt, torn, codec, threads>>

\* delete of an absent key: return False, nothing else
delete_miss(k) ==
    /\ CanStart
    /\ ~DictHas(data, k)
    /\ ret' = False
    /\ arg' = [key |-> k, value |-> None, i |-> 0]
    /\ lastEvent' = "delete_miss"
    /\ wrote' = <<>>
    /\ del' = NoDel
    /\ opsLeft' = opsLeft - 1
    /\ UNCHANGED <<files, snapshot, seq_num, current_file, segment_size, data,
                   low_water_mark, lock, pc, entries, hiSeq, expect, everDeleted, returned,
                   afterCkpt, torn, codec, threads>>

\* delete of a present key, first statement: self.wal.append(OperationType.DELETE, key)
delete_log(k) ==
    /\ CanStart /\ CanAppend /\ HandleOpen
    /\ DictHas(data, k)
    /\ LET w == append(files, seq_num, current_file, segment_size, "DELETE", k, None)
       IN  /\ files' = w.files
           /\ seq_num' = w.seq_num
           /\ current_file' = w.current_file
           /\ wrote' = <<w.entry>>
           /\ hiSeq' = Max(hiSeq, w.entry.seq_num)
    /\ lock' = "client"
    /\ pc' = "delete_mem"
    /\ arg' = [key |-> k, value |-> None, i |-> 0]
    /\ lastEvent' = "delete_log"
    /\ del' = NoDel
    /\ opsLeft' = opsLeft - 1
    /\ UNCHANGED <<snapshot, segment_size, data, low_water_mark, ret, entries, expect,
                   everDeleted, returned, torn, codec, threads>>
    /\ afterCkpt' = IF afterCkpt.on
                    THEN [afterCkpt EXCEPT !.recs = Append(@, Entry(seq_num + 1, "DELETE", k, None))]
                    ELSE afterCkpt

\* delete, second statement: del self.data[key]; return True
delete_mem ==
    /\ pc = "delete_mem"
    /\ data' = DictDel(data, arg.key)
    /\ lock' = "free"
    /\ pc' = "idle"
    /\ ret' = True
    /\ lastEvent' = "delete"
    /\ del' = NoDel
    /\ UNCHANGED <<files, snapshot, seq_num, current_file, segment_size, low_water_mark,
                   arg, entries, wrote, hiSeq, expect, everDeleted, opsLeft,
                   afterCkpt, torn, codec, threads>>
    /\ returned' = TRUE

Delete == (\E k \in Keys : delete_miss(k) \/ delete_log(k)) \/ delete_mem

\* a get that removes the key it reads, as self.data.pop(key, None) would
get_pop(k) ==
    /\ CanStart
    /\ ret' = DictGet(data, k)
    /\ data' = DictDel(data, k)
    /\ arg' = [key |-> k, value |-> None, i |-> 0]
    /\ lastEvent' = "get"
    /\ wrote' = <<>>
    /\ del' = NoDel
    /\ opsLeft' = opsLeft - 1
    /\ UNCHANGED <<files, snapshot, seq_num, current_file, segment_size,
                   low_water_mark, lock, pc, entries, hiSeq, expect, everDeleted, returned,
                   afterCkpt, torn, codec, threads>>

\* get: with self.lock: return self.data.get(key)
get(k) ==
    /\ CanStart
    /\ ret' = DictGet(data, k)
    /\ arg' = [key |-> k, value |-> None, i |-> 0]
    /\ lastEvent' = "get"
    /\ wrote' = <<>>
    /\ del' = NoDel
    /\ opsLeft' = opsLeft - 1
    /\ UNCHANGED <<files, snapshot, seq_num, current_file, segment_size, data,
                   low_water_mark, lock, pc, entries, hiSeq, expect, everDeleted, returned,
                   afterCkpt, torn, codec, threads>>

Get == \E k \in Keys : get(k)

\* list(self.store.data.keys()), the KEYS command of the server
keys(d) == {d[i].key : i \in 1..Len(d)}

\* checkpoint: open(snapshot_path, "w") truncates snapshot.json in place
checkpoint_open ==
    /\ CanStart
    /\ snapshot' = [state |-> "partial", seq_num |-> -1, data |-> <<>>]
    /\ lock' = "client"
    /\ pc' = "ckpt_dump"
    /\ arg' = NoArg
    /\ lastEvent' = "ckpt_open"
    /\ wrote' = <<>>
    /\ del' = NoDel
    /\ opsLeft' = opsLeft - 1
    /\ UNCHANGED <<files, seq_num, current_file, segment_size, data, low_water_mark,
                   ret, entries, hiSeq, expect, everDeleted, returned, torn, codec, threads>>
    /\ afterCkpt' = NoCkpt

\* checkpoint: json.dump({"seq_num": self.wal.seq_num, "data": self.data}, f); file closed
checkpoint_dump ==
    /\ pc = "ckpt_dump"
    /\ snapshot' = [state |-> "ok", seq_num |-> seq_num, data |-> data]
    /\ pc' = "ckpt_compact"
    /\ lastEvent' = "ckpt_dump"
    /\ del' = NoDel
    /\ UNCHANGED <<files, seq_num, current_file, segment_size, data, low_water_mark,
                   lock, arg, ret, entries, wrote, hiSeq, expect, everDeleted, returned, opsLeft,
                   afterCkpt, torn, codec, threads>>

\* checkpoint: wal.close(); low_water_mark = wal.seq_num; delete_old_segments if fresh
checkpoint_compact ==
    /\ pc = "ckpt_compact"
    /\ LET lwm  == seq_num
           snap == get_snapshot_seq_num(snapshot)
           d    == IF is_snapshot_fresh(snap, seq_num)
                   THEN delete_old_segments(files, seq_num, NoFile, lwm, snap)
                   ELSE [files |-> files, current_file |-> NoFile, removed |-> {}]
       IN  /\ low_water_mark' = lwm
           /\ files' = d.files
           /\ current_file' = NoFile
           /\ del' = IF is_snapshot_fresh(snap, seq_num)
                     THEN DelCall("checkpoint", files, seq_num, lwm, snapshot, d.removed)
                     ELSE NoDel
           /\ everDeleted' = (everDeleted \/ d.removed # {})
    /\ pc' = "ckpt_newwal"
    /\ lastEvent' = "ckpt_compact"
    /\ UNCHANGED <<snapshot, seq_num, segment_size, data, lock, arg, ret, entries,
                   wrote, hiSeq, expect, returned, opsLeft,
                   afterCkpt, torn, codec, threads>>

\* checkpoint: self.wal = WAL(os.path.join(self.data_dir, "wal"))
checkpoint_newwal ==
    /\ pc = "ckpt_newwal"
    /\ LET w == WAL_init(files)
       IN  /\ files' = w.files
           /\ seq_num' = w.seq_num
           /\ current_file' = w.current_file
    /\ pc' = IF Len(data) = 0 THEN "idle" ELSE "ckpt_relog"
    /\ lock' = IF Len(data) = 0 THEN "free" ELSE lock
    /\ arg' = [key |-> None, value |-> None, i |-> 1]
    /\ ret' = IF Len(data) = 0 THEN None ELSE ret
    /\ lastEvent' = IF Len(data) = 0 THEN "checkpoint" ELSE "ckpt_newwal"
    /\ del' = NoDel
    /\ UNCHANGED <<snapshot, segment_size, data, low_water_mark, entries, wrote, hiSeq,
                   expect, everDeleted, returned, opsLeft, torn, codec, threads>>
    /\ afterCkpt' = IF Len(data) = 0 THEN [on |-> TRUE, recs |-> <<>>] ELSE afterCkpt

\* checkpoint: one iteration of  for key, value in self.data.items(): self.wal.append(PUT, ..)
checkpoint_relog ==
    /\ pc = "ckpt_relog"
    /\ CanAppend
    /\ LET kv == data[arg.i]
           w  == append(files, seq_num, current_file, segment_size, "PUT", kv.key, kv.value)
       IN  /\ files' = w.files
           /\ seq_num' = w.seq_num
           /\ current_file' = w.current_file
           /\ wrote' = Append(wrote, w.entry)
           /\ hiSeq' = Max(hiSeq, w.entry.seq_num)
    /\ arg' = [arg EXCEPT !.i = @ + 1]
    /\ pc' = IF arg.i = Len(data) THEN "idle" ELSE "ckpt_relog"
    /\ lock' = IF arg.i = Len(data) THEN "free" ELSE lock
    /\ ret' = IF arg.i = Len(data) THEN None ELSE ret
    /\ lastEvent' = IF arg.i = Len(data) THEN "checkpoint" ELSE "ckpt_relog"
    /\ del' = NoDel
    /\ UNCHANGED <<snapshot, segment_size, data, low_water_mark, entries, expect,
                   everDeleted, returned, opsLeft, torn, codec, threads>>
    /\ afterCkpt' = IF arg.i = Len(data) THEN [on |-> TRUE, recs |-> <<>>] ELSE afterCkpt

Checkpoint ==
    checkpoint_open \/ checkpoint_dump \/ checkpoint_compact \/ checkpoint_newwal
        \/ checkpoint_relog

\* one iteration of KVServer._log_cleanup_task, under the store lock
log_cleanup_task ==
    /\ CanStart
    /\ LET snap == get_snapshot_seq_num(snapshot)
           d    == delete_old_segments(files, seq_num, current_file, low_water_mark, snap)
       IN  /\ files' = d.files
           /\ current_file' = d.current_file
           /\ del' = DelCall("compactor", files, seq_num, low_water_mark, snapshot, d.removed)
           /\ everDeleted' = (everDeleted \/ d.removed # {})
    /\ arg' = NoArg
    /\ lastEvent' = "compact"
    /\ wrote' = <<>>
    /\ opsLeft' = opsLeft - 1
    /\ UNCHANGED <<snapshot, seq_num, segment_size, data, low_water_mark, lock, pc, ret,
                   entries, hiSeq, expect, returned,
                   afterCkpt, torn, codec, threads>>

\* a new KeyValueStore on the same data directory
Restart(ev) ==
    LET kv == KeyValueStore_init(files, snapshot)
    IN  /\ files' = kv.files
        /\ seq_num' = kv.seq_num
        /\ current_file' = kv.current_file
        /\ data' = kv.data
        /\ low_water_mark' = 0
        /\ lock' = "free"
        /\ pc' = IF kv.ok THEN "idle" ELSE "failed"
        /\ arg' = NoArg
        /\ ret' = None
        /\ lastEvent' = ev
        /\ wrote' = <<>>
        /\ del' = NoDel
        /\ opsLeft' = opsLeft - 1
        /\ UNCHANGED <<snapshot, segment_size, entries, hiSeq, everDeleted, returned, torn, codec, threads>>
        /\ afterCkpt' = NoCkpt

\* store.close() followed by KeyValueStore(data_dir)
close_reopen ==
    /\ CanStart
    /\ expect' = {AsMap(data)}
    /\ Restart("reopen")

\* mappings consistent with the operations issued so far when the process dies
Survivors ==
    {AsMap(data)} \cup
    (IF pc = "put_mem" THEN {AsMap(DictPut(data, arg.key, arg.value))} ELSE {}) \cup
    (IF pc = "delete_mem" THEN {AsMap(DictDel(data, arg.key))} ELSE {})

\* the process dies at any statement; the store is then constructed again
crash_reopen ==
    /\ pc # "failed"
    /\ opsLeft > 0
    /\ expect' = Survivors
    /\ Restart("crash")

Next ==
    \/ Put
    \/ Delete
    \/ Checkpoint
    \/ log_cleanup_task
    \/ close_reopen
    \/ crash_reopen

Spec == Init /\ [][Next]_vars

\* the store alone: no background compactor, no crash
NextStore == Put \/ Delete \/ Checkpoint \/ close_reopen

InitStore == InitState(SegmentSizes, MaxStoreOps)

SpecStore == InitStore /\ [][NextStore]_vars

\* the store as a map: put with every kind of value, get, delete, checkpoint
PutMap == (\E k \in Keys, v \in MapValues : put_log(k, v)) \/ put_mem

NextMap == PutMap \/ Delete \/ Get \/ Checkpoint

InitMap == InitState(SegmentSizes, MaxMapOps)

SpecMap == InitMap /\ [][NextMap]_vars

\* ---------------------------------------------------------------- WAL alone
\* segment_size regimes of a WAL used on its own, as the tests do (segment_size=10
\* is smaller than one record)
WalSegmentSizes == {0, 1, 3}

\* WAL(log_dir, segment_size=...) on an empty directory
InitWal == InitState(WalSegmentSizes, MaxAppends)

\* wal.append(op_type, key, value)
wal_append(op, k, v) ==
    /\ opsLeft > 0 /\ CanAppend
    /\ LET w == append(files, seq_num, current_file, segment_size, op, k, v)
       IN  /\ files' = w.files
           /\ seq_num' = w.seq_num
           /\ current_file' = w.current_file
           /\ wrote' = Append(wrote, w.entry)
           /\ hiSeq' = Max(hiSeq, w.entry.seq_num)
           /\ ret' = w.result
    /\ arg' = [key |-> k, value |-> v, i |-> 0]
    /\ lastEvent' = "append"
    /\ opsLeft' = opsLeft - 1
    /\ UNCHANGED <<snapshot, segment_size, data, low_water_mark, lock, pc, entries, del,
                   expect, everDeleted, returned,
                   afterCkpt, torn, codec, threads>>

\* entries = wal.read_all_entries(), or the exception it raises
wal_read_all ==
    /\ lastEvent \notin {"read_all", "read_all_raised"}
    /\ entries' = IF read_all_raises(files) THEN entries ELSE read_all_entries(files)
    /\ lastEvent' = IF read_all_raises(files) THEN "read_all_raised" ELSE "read_all"
    /\ UNCHANGED <<files, snapshot, seq_num, current_file, segment_size, data,
                   low_water_mark, lock, pc, arg, ret, wrote, hiSeq, del, expect,
                   everDeleted, returned, afterCkpt, torn, opsLeft, codec, threads>>

\* wal.close() followed by WAL(log_dir) on the same directory
wal_reopen ==
    /\ opsLeft > 0
    /\ LET w == WAL_init(files)
       IN  /\ files' = w.files
           /\ seq_num' = w.seq_num
           /\ current_file' = w.current_file
    /\ lastEvent' = "wal_reopen"
    /\ opsLeft' = opsLeft - 1
    /\ UNCHANGED <<snapshot, segment_size, data, low_water_mark, lock, pc, arg, ret,
                   entries, wrote, hiSeq, del, expect, everDeleted, returned,
                   afterCkpt, torn, codec, threads>>

WalAppend ==
    \E k \in Keys :
        \/ \E v \in Values : wal_append("PUT", k, v)
        \/ wal_append("DELETE", k, None)

NextWal == WalAppend \/ wal_read_all \/ wal_reopen

SpecWal == InitWal /\ [][NextWal]_vars

\* one WAL object from an empty directory on: appends and reads only
NextWalFresh == WalAppend \/ wal_read_all

SpecWalFresh == InitWal /\ [][NextWalFresh]_vars

\* ------------------------------------------------------- damaged segments
\* numerically largest segment number of a directory listing
FinalSegment(names) == CHOOSE n \in names : \A m \in names : m <= n

\* the last len(frame) - left bytes of segment n are cut off, 1 <= left < len(frame):
\* left < 4 leaves zero bytes of the prefix, left >= 4 a prefix without its body
wal_truncate(n, p) ==
    /\ opsLeft > 0
    /\ torn.count < MaxFaults
    /\ n \in DOMAIN files
    /\ files[n] # <<>>
    /\ ~IsTorn(files[n][Len(files[n])])
    /\ current_file.linked
    /\ LET whole == SubSeq(files[n], 1, Len(files[n]) - 1)
           last  == files[n][Len(files[n])]
       IN  /\ files' = [files EXCEPT ![n] = Append(whole, Torn(last, p, 1))]
           /\ torn' = [count |-> torn.count + 1, kind |-> "truncate", segment |-> n,
                       names |-> DOMAIN files,
                       base |-> read_all_entries([files EXCEPT ![n] = whole])]
    /\ wrote' = <<>>
    /\ lastEvent' = "truncate"
    /\ opsLeft' = opsLeft - 1
    /\ UNCHANGED <<snapshot, seq_num, current_file, segment_size, data, low_water_mark,
                   lock, pc, arg, ret, entries, hiSeq, del, expect, everDeleted, returned,
                   afterCkpt, codec, threads>>

WalTruncate == \E n \in 0..MaxSeq, p \in {"zero", "length"} : wal_truncate(n, p)

\* the machine stops while append writes a frame (wal.py:77-80): part of the
\* frame is on disk; then WAL(log_dir) is constructed on the same directory
wal_torn_append(k, v, p, m) ==
    /\ opsLeft > 0 /\ CanAppend
    /\ torn.count < MaxFaults
    /\ current_file.linked
    /\ LET fs1 == [files EXCEPT ![current_file.name] =
                       Append(@, Torn(Entry(seq_num + 1, "PUT", k, v), p, m))]
           w   == WAL_init(fs1)
       IN  /\ files' = w.files
           /\ seq_num' = w.seq_num
           /\ current_file' = w.current_file
           /\ torn' = [count |-> torn.count + 1, kind |-> "torn_append",
                       segment |-> current_file.name, names |-> DOMAIN files,
                       base |-> read_all_entries(files)]
    /\ wrote' = <<>>
    /\ arg' = [key |-> k, value |-> v, i |-> 0]
    /\ lastEvent' = "torn_reopen"
    /\ opsLeft' = opsLeft - 1
    /\ UNCHANGED <<snapshot, segment_size, data, low_water_mark, lock, pc, ret, entries,
                   hiSeq, del, expect, everDeleted, returned, afterCkpt, codec, threads>>

WalTornAppend ==
    \E k \in Keys, v \in Values :
        \/ wal_torn_append(k, v, "zero", 1)
        \/ \E m \in 1..MaxMissing : wal_torn_append(k, v, "length", m)

NextTorn == WalAppend \/ wal_read_all \/ wal_reopen \/ WalTruncate \/ WalTornAppend

InitTorn == InitState(WalSegmentSizes, MaxTornOps)

SpecTorn == InitTorn /\ [][NextTorn]_vars

\* ---------------------------------------------------------- codec alone
CodecValues == {PyStr("1"), PyNone, PyInt("1"), PyList("a"), PyTuple("a")}
Timestamps == {"1.5", "2.5"}
CompressionTypes == {0, 1}
Fields == {"seq_num", "op_type", "key", "value", "timestamp", "checksum", "format_version",
           "compression_type"}

\* values a tampered payload may hold in a field
StoredValues(f) ==
    IF f = "seq_num" THEN 1..(MaxCodecSeq + 1)
    ELSE IF f = "op_type" THEN {1, 2, 3}
    ELSE IF f = "key" THEN Keys
    ELSE IF f = "value" THEN {json_dumps(v) : v \in CodecValues}
    ELSE IF f = "timestamp" THEN Timestamps
    ELSE IF f = "checksum" THEN {"0"}
    ELSE IF f = "format_version" THEN {CURRENT_FORMAT_VERSION, CURRENT_FORMAT_VERSION + 1}
    ELSE {0, 1, 2}

OtherCodecVars ==
    <<files, snapshot, seq_num, current_file, segment_size, data, low_water_mark, lock, pc,
      arg, ret, entries, lastEvent, wrote, hiSeq, del, expect, everDeleted, returned,
      afterCkpt, torn, threads, opsLeft>>

\* entry = CompressedLogEntry(seq_num, op_type, key, value, compression_config=...)
entry_new(s, op, k, v, now, cfg) ==
    /\ codec.stage = "none"
    /\ codec' = [codec EXCEPT !.stage = "new",
                              !.entry = CompressedLogEntry(s, op, k, v, now, cfg)]
    /\ UNCHANGED OtherCodecVars

EntryNew ==
    \E s \in 1..MaxCodecSeq, k \in Keys, now \in Timestamps, cfg \in CompressionTypes :
        \/ \E v \in CodecValues : entry_new(s, "PUT", k, v, now, cfg)
        \/ entry_new(s, "DELETE", k, PyNone, now, cfg)

\* payload = entry.serialize(); serialize also records the compression used
entry_serialize ==
    /\ codec.stage = "new"
    /\ codec' = [codec EXCEPT !.stage = "serialized",
                              !.payload = serialize(codec.entry),
                              !.entry.compression_type = codec.entry.compression_config]
    /\ UNCHANGED OtherCodecVars

\* the stored value of one field of the payload is changed
payload_alter_field(f, x) ==
    /\ codec.stage = "serialized"
    /\ x # codec.payload.json[f]
    /\ codec' = [codec EXCEPT !.stage = "altered",
                              !.payload.json[f] = x,
                              !.altered = [kind |-> "field", field |-> f]]
    /\ UNCHANGED OtherCodecVars

\* the algorithm byte of the payload is changed
payload_alter_algo(a) ==
    /\ codec.stage = "serialized"
    /\ a # codec.payload.algo
    /\ codec' = [codec EXCEPT !.stage = "altered",
                              !.payload.algo = a,
                              !.altered = [kind |-> "algo", field |-> "none"]]
    /\ UNCHANGED OtherCodecVars

\* the payload is the JSON object without one of its fields
payload_drop_field(f) ==
    /\ codec.stage = "serialized"
    /\ codec' = [codec EXCEPT !.stage = "altered",
                              !.payload.json = [g \in (DOMAIN @) \ {f} |-> @[g]],
                              !.altered = [kind |-> "missing", field |-> f]]
    /\ UNCHANGED OtherCodecVars

PayloadAlter ==
    \/ \E f \in Fields : \E x \in StoredValues(f) : payload_alter_field(f, x)
    \/ \E a \in {0, 1, 2} : payload_alter_algo(a)
    \/ \E f \in Fields : payload_drop_field(f)

\* CompressedLogEntry.deserialize(payload)
payload_deserialize ==
    /\ codec.stage \in {"serialized", "altered"}
    /\ codec' = [codec EXCEPT !.stage = "decoded", !.result = deserialize(codec.payload)]
    /\ UNCHANGED OtherCodecVars

NextCodec == EntryNew \/ entry_serialize \/ PayloadAlter \/ payload_deserialize

InitCodec == InitState({0}, 0)

SpecCodec == InitCodec /\ [][NextCodec]_vars

\* ------------------------------------------------- puts of several threads
OtherThreadVars ==
    <<snapshot, segment_size, low_water_mark, pc, arg, ret, entries, wrote, del, expect,
      everDeleted, returned, afterCkpt, torn, codec>>

\* the handle's file, with content c
WriteHandle(fs, cf, c) ==
    [files        |-> IF cf.linked THEN [fs EXCEPT ![cf.name] = c] ELSE fs,
     current_file |-> IF cf.linked THEN cf ELSE [cf EXCEPT !.detached = c]]

\* WAL.append up to the first write: seq_num += 1, the entry is built and its 4-byte
\* length goes into the file
append_length(fs, s, cf, op, k, v) ==
    LET e == Entry(s + 1, op, k, v)
        w == WriteHandle(fs, cf, Append(HandleContent(fs, cf), Torn(e, "length", 1)))
    IN  [files |-> w.files, seq_num |-> s + 1, current_file |-> w.current_file, entry |-> e]

\* WAL.append from the second write on: the serialized entry goes into the file behind
\* whatever the file holds by then, flush, fsync, rotation when the file is too large
append_body(fs, s, cf, size, e) ==
    LET c    == HandleContent(fs, cf)
        c1   == IF c # <<>> /\ c[Len(c)] = Torn(e, "length", 1)
                THEN Append(SubSeq(c, 1, Len(c) - 1), e)
                ELSE Append(c, Torn(e, "body", MaxSeq))
        w    == WriteHandle(fs, cf, c1)
        tell == Len(c1)
    IN  IF tell > size
        THEN rotate_log(w.files, s)
        ELSE [files |-> w.files, seq_num |-> s, current_file |-> w.current_file]

\* a thread calls store.put(k, v) and waits for the store lock
thread_put_call(t, k, v) ==
    /\ threads.call[t].pc = "idle"
    /\ pc = "idle"
    /\ opsLeft > 0
    /\ threads' = [threads EXCEPT !.call[t] = [pc |-> "waiting", key |-> k, value |-> v,
                                                seq_num |-> 0]]
    /\ opsLeft' = opsLeft - 1
    /\ UNCHANGED <<files, seq_num, current_file, data, lock, lastEvent, hiSeq>>
    /\ UNCHANGED OtherThreadVars

\* a put that does not take the store lock
thread_put_begin_unlocked(t) ==
    /\ threads.call[t].pc = "waiting"
    /\ CanAppend
    /\ LET c == threads.call[t]
           w == append_length(files, seq_num, current_file, "PUT", c.key, c.value)
       IN  /\ files' = w.files
           /\ seq_num' = w.seq_num
           /\ current_file' = w.current_file
           /\ threads' = [threads EXCEPT
                             !.call[t] = [c EXCEPT !.pc = "append", !.seq_num = w.seq_num],
                             !.acquired = Append(@, [thread |-> t, seq_num |-> w.seq_num])]
    /\ lastEvent' = "put_begin"
    /\ UNCHANGED <<data, lock, hiSeq, opsLeft>>
    /\ UNCHANGED OtherThreadVars

\* put: with self.lock is entered, wal.append starts and writes the length
thread_put_begin(t) ==
    /\ threads.call[t].pc = "waiting"
    /\ lock = "free"
    /\ CanAppend
    /\ LET c == threads.call[t]
           w == append_length(files, seq_num, current_file, "PUT", c.key, c.value)
       IN  /\ files' = w.files
           /\ seq_num' = w.seq_num
           /\ current_file' = w.current_file
           /\ threads' = [threads EXCEPT
                             !.call[t] = [c EXCEPT !.pc = "append", !.seq_num = w.seq_num],
                             !.acquired = Append(@, [thread |-> t, seq_num |-> w.seq_num])]
    /\ lock' = t
    /\ lastEvent' = "put_begin"
    /\ UNCHANGED <<data, hiSeq, opsLeft>>
    /\ UNCHANGED OtherThreadVars

\* put: wal.append writes the entry, flushes and rotates
thread_put_write(t) ==
    /\ threads.call[t].pc = "append"
    /\ LET c == threads.call[t]
           w == append_body(files, seq_num, current_file, segment_size,
                            Entry(c.seq_num, "PUT", c.key, c.value))
       IN  /\ files' = w.files
           /\ seq_num' = w.seq_num
           /\ current_file' = w.current_file
           /\ hiSeq' = Max(hiSeq, c.seq_num)
    /\ threads' = [threads EXCEPT !.call[t].pc = "mem"]
    /\ lastEvent' = "put_log"
    /\ UNCHANGED <<data, lock, opsLeft>>
    /\ UNCHANGED OtherThreadVars

\* put: self.data[key] = value, the lock is released and put returns
thread_put_mem(t) ==
    /\ threads.call[t].pc = "mem"
    /\ data' = DictPut(data, threads.call[t].key, threads.call[t].value)
    /\ lock' = IF lock = t THEN "free" ELSE lock
    /\ threads' = [threads EXCEPT !.call[t].pc = "idle"]
    /\ lastEvent' = "put"
    /\ UNCHANGED <<files, seq_num, current_file, hiSeq, opsLeft>>
    /\ UNCHANGED OtherThreadVars

ThreadPut ==
    \E t \in Threads :
        \/ \E k \in Keys, v \in MapValues \ {None} : thread_put_call(t, k, v)
        \/ thread_put_begin(t)
        \/ thread_put_write(t)
        \/ thread_put_mem(t)

NextThreads == ThreadPut

InitThreads == InitState(WalSegmentSizes, MaxThreadOps)

SpecThreads == InitThreads /\ [][NextThreads]_vars

\* --------------------------------------------------------- failing appends
\* where WAL.append raises:
\*   "closed"  the handle is closed (an earlier rotation failed): write raises ValueError
\*   "nothing" a write or the flush raises before a byte of the frame is in the file
\*   "zero", "length"  the flush raises with a part of the frame in the file
\*   "fsync"   the frame is in the file and os.fsync raises
\*   "rotate"  the frame is in the file, the segment is closed and open() of the next raises
FailurePoints == {"closed", "nothing", "zero", "length", "fsync", "rotate"}

append_raises(fs, s, cf, size, op, k, v, at) ==
    LET e     == Entry(s + 1, op, k, v)
        c     == HandleContent(fs, cf)
        c1    == IF at \in {"zero", "length"} THEN Append(c, Torn(e, at, 1))
                 ELSE IF at \in {"fsync", "rotate"} THEN Append(c, e)
                 ELSE c
        w     == IF at = "closed" THEN [files |-> fs, current_file |-> cf]
                 ELSE WriteHandle(fs, cf, c1)
    IN  [files |-> w.files,
         seq_num |-> IF at = "rotate" THEN s + 2 ELSE s + 1,
         current_file |-> IF at = "rotate" THEN NoFile ELSE w.current_file,
         possible |-> /\ (at = "closed") <=> (cf = NoFile)
                      /\ (at = "rotate") => (Len(c1) > size),
         whole |-> at \in {"fsync", "rotate"},
         entry |-> e,
         error |-> IF at = "closed" THEN "ValueError" ELSE "OSError"]

\* a put that updates the mapping before it logs
put_fail_memory_first(k, v, at) ==
    /\ CanStart /\ CanAppend
    /\ torn.count < MaxAppendFaults
    /\ LET w == append_raises(files, seq_num, current_file, segment_size, "PUT", k, v, at)
       IN  /\ w.possible
           /\ files' = w.files
           /\ seq_num' = w.seq_num
           /\ current_file' = w.current_file
           /\ hiSeq' = IF w.whole THEN Max(hiSeq, w.entry.seq_num) ELSE hiSeq
           /\ ret' = w.error
    /\ data' = DictPut(data, k, v)
    /\ arg' = [key |-> k, value |-> v, i |-> 0]
    /\ lastEvent' = "put_failed"
    /\ wrote' = <<>>
    /\ del' = NoDel
    /\ torn' = [torn EXCEPT !.count = @ + 1, !.kind = "append_failed"]
    /\ opsLeft' = opsLeft - 1
    /\ UNCHANGED <<snapshot, segment_size, low_water_mark, lock, pc, entries, expect,
                   everDeleted, returned, afterCkpt, codec, threads>>

\* put whose wal.append raises: the exception leaves the with block, the lock is
\* released and self.data[key] = value is not reached
put_fail(k, v, at) ==
    /\ CanStart /\ CanAppend
    /\ torn.count < MaxAppendFaults
    /\ LET w == append_raises(files, seq_num, current_file, segment_size, "PUT", k, v, at)
       IN  /\ w.possible
           /\ files' = w.files
           /\ seq_num' = w.seq_num
           /\ current_file' = w.current_file
           /\ hiSeq' = IF w.whole THEN Max(hiSeq, w.entry.seq_num) ELSE hiSeq
           /\ ret' = w.error
    /\ arg' = [key |-> k, value |-> v, i |-> 0]
    /\ lastEvent' = "put_failed"
    /\ wrote' = <<>>
    /\ del' = NoDel
    /\ torn' = [torn EXCEPT !.count = @ + 1, !.kind = "append_failed"]
    /\ opsLeft' = opsLeft - 1
    /\ UNCHANGED <<snapshot, segment_size, data, low_water_mark, lock, pc, entries, expect,
                   everDeleted, returned, afterCkpt, codec, threads>>

\* delete of a present key whose wal.append raises: del self.data[key] is not reached
delete_fail(k, at) ==
    /\ CanStart /\ CanAppend
    /\ torn.count < MaxAppendFaults
    /\ DictHas(data, k)
    /\ LET w == append_raises(files, seq_num, current_file, segment_size, "DELETE", k, None,
                              at)
       IN  /\ w.possible
           /\ files' = w.files
           /\ seq_num' = w.seq_num
           /\ current_file' = w.current_file
           /\ hiSeq' = IF w.whole THEN Max(hiSeq, w.entry.seq_num) ELSE hiSeq
           /\ ret' = w.error
    /\ arg' = [key |-> k, value |-> None, i |-> 0]
    /\ lastEvent' = "delete_failed"
    /\ wrote' = <<>>
    /\ del' = NoDel
    /\ torn' = [torn EXCEPT !.count = @ + 1, !.kind = "append_failed"]
    /\ opsLeft' = opsLeft - 1
    /\ UNCHANGED <<snapshot, segment_size, data, low_water_mark, lock, pc, entries, expect,
                   everDeleted, returned, afterCkpt, codec, threads>>

PutFail == \E k \in Keys, v \in Values, at \in FailurePoints : put_fail(k, v, at)

DeleteFail == \E k \in Keys, at \in FailurePoints : delete_fail(k, at)

NextFault == Put \/ Delete \/ PutFail \/ DeleteFail

InitFault == InitState(SegmentSizes, MaxFaultOps)

SpecFault == InitFault /\ [][NextFault]_vars

\* ------------------------------------------------- server: compactor, stop
OtherCleanupVars ==
    <<snapshot, seq_num, segment_size, data, low_water_mark, pc, ret, entries, hiSeq,
      expect, returned, afterCkpt, torn, codec, opsLeft>>

\* a loop test that ignores the running flag
cleanup_check_forever ==
    /\ threads.cleanup.pc = "check"
    /\ threads' = [threads EXCEPT !.cleanup.pc = "wait"]
    /\ UNCHANGED <<files, current_file, lock, arg, lastEvent, wrote, del, everDeleted>>
    /\ UNCHANGED OtherCleanupVars

\* _log_cleanup_task: while self.running
cleanup_check ==
    /\ threads.cleanup.pc = "check"
    /\ threads' = [threads EXCEPT !.cleanup.pc = IF threads.running THEN "wait" ELSE "done"]
    /\ UNCHANGED <<files, current_file, lock, arg, lastEvent, wrote, del, everDeleted>>
    /\ UNCHANGED OtherCleanupVars

\* an iteration that reads the mark and the snapshot without taking the store lock
cleanup_lock_unlocked ==
    /\ threads.cleanup.pc = "wait"
    /\ threads' = [threads EXCEPT
                      !.cleanup.pc = "locked",
                      !.cleanup.low_water_mark = low_water_mark,
                      !.cleanup.snapshot_seq_num = get_snapshot_seq_num(snapshot)]
    /\ UNCHANGED <<files, current_file, lock, arg, lastEvent, wrote, del, everDeleted>>
    /\ UNCHANGED OtherCleanupVars

\* _log_cleanup_task: with self.store.lock, then the two reads
cleanup_lock ==
    /\ threads.cleanup.pc = "wait"
    /\ lock = "free"
    /\ lock' = "compactor"
    /\ threads' = [threads EXCEPT
                      !.cleanup.pc = "locked",
                      !.cleanup.low_water_mark = low_water_mark,
                      !.cleanup.snapshot_seq_num = get_snapshot_seq_num(snapshot)]
    /\ UNCHANGED <<files, current_file, arg, lastEvent, wrote, del, everDeleted>>
    /\ UNCHANGED OtherCleanupVars

\* _log_cleanup_task: wal.delete_old_segments(low_water_mark, snapshot_seq_num), the
\* lock is released and the thread goes to sleep
cleanup_delete ==
    /\ threads.cleanup.pc = "locked"
    /\ LET c == threads.cleanup
           d == delete_old_segments(files, seq_num, current_file, c.low_water_mark,
                                    c.snapshot_seq_num)
       IN  /\ files' = d.files
           /\ current_file' = d.current_file
           /\ del' = [DelCall("compactor", files, seq_num, c.low_water_mark, snapshot,
                              d.removed)
                         EXCEPT !.snapshot_seq_num = c.snapshot_seq_num]
           /\ everDeleted' = (everDeleted \/ d.removed # {})
           /\ threads' = [threads EXCEPT
                             !.cleanup.pc = "sleep",
                             !.cleanup.after_stop =
                                 IF threads.running THEN @
                                 ELSE IF @ < MaxIterations THEN @ + 1 ELSE @]
    /\ lock' = IF lock = "compactor" THEN "free" ELSE lock
    /\ arg' = NoArg
    /\ lastEvent' = "compact"
    /\ wrote' = <<>>
    /\ UNCHANGED OtherCleanupVars

\* _log_cleanup_task: time.sleep(60) returns
cleanup_wake ==
    /\ threads.cleanup.pc = "sleep"
    /\ threads' = [threads EXCEPT !.cleanup.pc = "check"]
    /\ UNCHANGED <<files, current_file, lock, arg, lastEvent, wrote, del, everDeleted>>
    /\ UNCHANGED OtherCleanupVars

\* KVServer.stop: self.running = False
server_stop ==
    /\ threads.running
    /\ threads' = [threads EXCEPT !.running = FALSE]
    /\ UNCHANGED <<files, current_file, lock, arg, lastEvent, wrote, del, everDeleted>>
    /\ UNCHANGED OtherCleanupVars

\* KVServer.stop: self.store.close(), which closes the WAL's file under the store lock
server_close ==
    /\ ~threads.running
    /\ pc = "idle" /\ lock = "free"
    /\ HandleOpen
    /\ current_file' = NoFile
    /\ lastEvent' = "close"
    /\ del' = NoDel
    /\ UNCHANGED <<files, lock, arg, wrote, everDeleted, threads>>
    /\ UNCHANGED OtherCleanupVars

Cleanup == cleanup_check \/ cleanup_lock \/ cleanup_delete \/ cleanup_wake

Stop == server_stop \/ server_close

NextServer == Put \/ Delete \/ Checkpoint \/ Cleanup \/ Stop

InitServer == InitState(SegmentSizes, MaxServerOps)

SpecServer == InitServer /\ [][NextServer]_vars

\* every step of a thread changes its position
progressVars == <<threads, pc, arg, current_file>>

\* the compactor thread is scheduled, store.close() is reached, and a thread inside
\* the store lock gets to release it
SpecServerFair ==
    /\ SpecServer
    /\ WF_progressVars(Cleanup)
    /\ WF_progressVars(server_close)
    /\ WF_progressVars(put_mem \/ delete_mem)
    /\ WF_progressVars(checkpoint_dump \/ checkpoint_compact \/ checkpoint_newwal
                          \/ checkpoint_relog)

\* ------------------------------------------- constructor on a given directory
\* snapshot data: dicts over Keys in either insertion order
ReplayDicts ==
    {<<>>} \cup {<<[key |-> k, value |-> v]>> : k \in Keys, v \in MapValues}
           \cup UNION {{<<[key |-> k, value |-> v], [key |-> l, value |-> "1"]>> :
                            l \in Keys \ {k}, v \in MapValues} : k \in Keys}

\* the operations a log record may hold
ReplayOps ==
    {[op_type |-> "PUT", key |-> k, value |-> v] : k \in Keys, v \in MapValues}
        \cup {[op_type |-> "DELETE", key |-> k, value |-> None] : k \in Keys}

\* logs of n records, numbered from 1
ReplayLogs(n) ==
    {[i \in 1..n |-> Entry(i, o[i].op_type, o[i].key, o[i].value)] : o \in [1..n -> ReplayOps]}

\* a data directory with a snapshot (or none) and one segment file
directory_given(snap, log) ==
    /\ lastEvent = "init"
    /\ snapshot' = snap
    /\ files' = (0 :> log)
    /\ lastEvent' = "given"
    /\ UNCHANGED <<seq_num, current_file, segment_size, data, low_water_mark, lock, pc, arg,
                   ret, entries, wrote, hiSeq, del, expect, everDeleted, returned,
                   afterCkpt, torn, codec, threads, opsLeft>>

DirectoryGiven ==
    \E n \in 0..MaxLogLen : \E log \in ReplayLogs(n) :
        \/ directory_given(NoSnapshot, log)
        \/ \E d \in ReplayDicts :
               directory_given([state |-> "ok", seq_num |-> 0, data |-> d], log)

\* KeyValueStore(data_dir) on that directory
directory_open ==
    /\ lastEvent = "given"
    /\ LET kv == KeyValueStore_init(files, snapshot)
       IN  /\ files' = kv.files
           /\ seq_num' = kv.seq_num
           /\ current_file' = kv.current_file
           /\ data' = kv.data
           /\ pc' = IF kv.ok THEN "idle" ELSE "failed"
    /\ low_water_mark' = 0
    /\ lastEvent' = "opened"
    /\ UNCHANGED <<snapshot, segment_size, lock, arg, ret, entries, wrote, hiSeq, del,
                   expect, everDeleted, returned, afterCkpt, torn, codec, threads, opsLeft>>

NextReplay == DirectoryGiven \/ directory_open

InitReplay == InitState({3}, 0)

SpecReplay == InitReplay /\ [][NextReplay]_vars

\* ------------------------------------------- failing appends of a WAL alone
\* WAL.append when current_file.flush() raises after part of the frame reached the
\* file: self.seq_num += 1 has run, nothing undoes it, the exception leaves append.
\*   p:    what is on disk, some bytes of the length ("zero") or the length and
\*         part of the payload ("length", m frames' worth of bytes missing)
\*   kept: the rest of the frame stays in the buffer of the file object (a record
\*         that fits the buffer) or is dropped (the payload of a larger record,
\*         which the file object writes through after the buffered length)
append_partway(fs, s, cf, op, k, v, p, m, kept) ==
    LET e == Entry(s + 1, op, k, v)
        w == WriteHandle(fs, cf, Append(HandleContent(fs, cf), Torn(e, p, m)))
    IN  [files |-> w.files,
         seq_num |-> s + 1,
         current_file |-> [w.current_file EXCEPT !.buffer = IF kept THEN <<e>> ELSE <<>>],
         entry |-> e,
         error |-> "OSError"]

\* wal.append(PUT, k, v) raising OSError partway, on a file object whose buffer is empty
wal_append_fail(k, v, p, m, kept) ==
    /\ opsLeft > 0 /\ CanAppend
    /\ torn.count < MaxAppendFaults
    /\ HandleOpen
    /\ current_file.buffer = <<>>
    /\ LET w == append_partway(files, seq_num, current_file, "PUT", k, v, p, m, kept)
       IN  /\ files' = w.files
           /\ seq_num' = w.seq_num
           /\ current_file' = w.current_file
           /\ ret' = w.error
    /\ torn' = [count |-> torn.count + 1, kind |-> "append_failed",
                segment |-> current_file.name, names |-> DOMAIN files,
                base |-> IF torn.count = 0 THEN wrote ELSE torn.base]
    /\ arg' = [key |-> k, value |-> v, i |-> 0]
    /\ lastEvent' = "append_failed"
    /\ opsLeft' = opsLeft - 1
    /\ UNCHANGED <<snapshot, segment_size, data, low_water_mark, lock, pc, entries,
                   wrote, hiSeq, del, expect, everDeleted, returned, afterCkpt, codec,
                   threads>>

WalAppendFail ==
    \E k \in Keys, v \in Values, kept \in BOOLEAN :
        \E p \in {"zero", "length"}, m \in 1..MaxMissing :
            (p = "zero" => m = 1 /\ kept) /\ wal_append_fail(k, v, p, m, kept)

NextWalFault == WalAppend \/ WalAppendFail \/ wal_read_all

InitWalFault == InitState(WalSegmentSizes, MaxWalFaultOps)

SpecWalFault == InitWalFault /\ [][NextWalFault]_vars

\* ------------------------------------------------------------------ claims
\* what a new KeyValueStore would rebuild from the directory as it is now
Rebuilt == KeyValueStore_init(files, snapshot)

StrictlyIncreasing(es) == \A i \in 1..(Len(es) - 1) : es[i].seq_num < es[i + 1].seq_num

\* stable insertion of e into a list ordered by seq_num
RECURSIVE InsertBySeq(_, _)
InsertBySeq(e, es) ==
    IF es = <<>> THEN <<e>>
    ELSE IF e.seq_num < Head(es).seq_num THEN <<e>> \o es
    ELSE <<Head(es)>> \o InsertBySeq(e, Tail(es))

RECURSIVE SortBySeq(_)
SortBySeq(es) ==
    IF es = <<>> THEN <<>>
    ELSE InsertBySeq(es[Len(es)], SortBySeq(SubSeq(es, 1, Len(es) - 1)))

\* C1: after close and reopen the in-memory mapping equals the mapping just
\* before close, for every sequence of put, delete and checkpoint.
C1_ReopenKeepsMapping ==
    lastEvent = "reopen" => (pc = "idle" /\ AsMap(data) \in expect)

\* C2: after a crash at any point and a reopen, the recovered mapping is the
\* mapping of a prefix of the issued operations that contains every returned one.
C2_CrashKeepsReturnedOps ==
    (lastEvent = "crash" /\ returned) => (pc = "idle" /\ AsMap(data) \in expect)

\* C3: once delete_old_segments has removed files, the surviving snapshot and
\* segments (with everything appended since) rebuild the in-memory mapping.
C3_CompactionKeepsCommitted ==
    (pc = "idle" /\ everDeleted) => (Rebuilt.ok /\ AsMap(Rebuilt.data) = AsMap(data))

\* C4: no delete_old_segments call removes a segment that holds a record whose
\* seq_num is greater than or equal to the low_water_mark passed to it.
C4_NoRecordAtOrAboveMarkRemoved ==
    del.called => \A s \in del.removed_seqs : s < del.low_water_mark

\* C7: after the constructor, the mapping is the snapshot data with exactly the
\* WAL records of seq_num greater than the snapshot's seq_num applied in seq_num order.
C7_ReplayOnlyAboveSnapshot ==
    (lastEvent \in {"reopen", "crash"} /\ pc = "idle") =>
        AsMap(data) =
            AsMap(apply_entries(
                SortBySeq(SelectSeq(read_all_entries(files),
                                    LAMBDA e : e.seq_num > get_snapshot_seq_num(snapshot))),
                snapshot.data))

\* C8: every record written to the log directory has a seq_num larger than
\* every record written before it.
C8_SeqNumsIncreaseOverWrites ==
    [][(wrote' # wrote /\ wrote' # <<>>) => wrote'[Len(wrote')].seq_num > hiSeq]_vars

\* C9: the list returned by read_all_entries is strictly increasing in seq_num.
C9_ReadAllStrictlyIncreasing ==
    lastEvent = "read_all" => StrictlyIncreasing(entries)

\* C10: after n appends to a WAL opened on an empty directory read_all_entries
\* returns n entries, the i-th carrying the key and value of the i-th append.
C10_ReadAllReturnsAppendsInOrder ==
    lastEvent = "read_all" =>
        /\ Len(entries) = Len(wrote)
        /\ \A i \in 1..Len(entries) :
              entries[i].key = wrote[i].key /\ entries[i].value = wrote[i].value

\* ------------------------------------------------- settled claims, continued
Records(es) == {es[i] : i \in 1..Len(es)}

\* e is in a segment of the directory or in the file behind the WAL's handle
Logged(e) ==
    \/ \E n \in DOMAIN files : e \in Records(files[n])
    \/ e \in Records(current_file.detached)

\* C4 (amended): no delete_old_segments call removes a segment whose file
\* number is greater than or equal to the low_water_mark passed to it.
C4_NoSegmentAtOrAboveMarkRemoved ==
    del.called => \A n \in del.removed : n < del.low_water_mark

\* a call that removed a segment holding a record numbered at or above the mark
C4_Witness ==
    /\ del.called
    /\ del.removed # {}
    /\ \E s \in del.removed_seqs : s >= del.low_water_mark

\* C5: a segment file disappears only in a delete_old_segments call made while a
\* snapshot exists whose seq_num equals the WAL's seq_num; a call with a
\* different snapshot seq_num (or -1, no snapshot) leaves the set of files unchanged.
C5_RemovalOnlyWhenFresh ==
    [][/\ ((DOMAIN files) \ (DOMAIN files') # {}) =>
            (/\ del'.called
             /\ del'.snapshot_exists
             /\ del'.snapshot_seq_num = del'.wal_seq_num
             /\ del'.wal_seq_num = seq_num)
       /\ (del'.called /\ del'.snapshot_seq_num # del'.wal_seq_num) =>
            (del'.removed = {} /\ DOMAIN files' = DOMAIN files)]_vars

\* the compactor called with a stale snapshot while segments lie below the mark,
\* after an earlier call did remove files
C5_Witness ==
    /\ del.called
    /\ del.by = "compactor"
    /\ del.snapshot_exists
    /\ del.snapshot_seq_num # del.wal_seq_num
    /\ \E n \in del.before : n < del.low_water_mark
    /\ everDeleted

Abs(d) == [k \in Keys |-> IF DictHas(d, k) THEN <<DictGet(d, k)>> ELSE <<>>]

PlainPut(m, k, v) == [m EXCEPT ![k] = <<v>>]
PlainDelete(m, k) == [m EXCEPT ![k] = <<>>]
PlainGet(m, k) == IF m[k] = <<>> THEN None ELSE m[k][1]
PlainKeys(m) == {k \in Keys : m[k] # <<>>}

\* every put, delete and get is the step of a plain map that holds Abs(data)
PlainMapSteps ==
    /\ (lastEvent' = "put") =>
            Abs(data') = PlainPut(Abs(data), arg.key, arg.value)
    /\ (lastEvent' = "delete") =>
            (/\ ret' = True
             /\ arg.key \in PlainKeys(Abs(data))
             /\ Abs(data') = PlainDelete(Abs(data), arg.key))
    /\ (lastEvent' = "delete_miss") =>
            (/\ ret' = False
             /\ arg'.key \notin PlainKeys(Abs(data))
             /\ Abs(data') = Abs(data))
    /\ (lastEvent' = "delete_log") => arg'.key \in PlainKeys(Abs(data))
    /\ (lastEvent' = "get") =>
            (/\ ret' = PlainGet(Abs(data), arg'.key)
             /\ Abs(data') = Abs(data))
    /\ (lastEvent' \notin {"put", "delete"}) => Abs(data') = Abs(data)
    /\ keys(data') = PlainKeys(Abs(data'))

\* C11: the store behaves as a plain map (get returns the value of the latest
\* put not followed by a delete, None otherwise; delete returns true exactly for
\* a present key), and the key set is the set of keys for which get is not None.
C11_PlainMapKeysAreNonNoneGets ==
    [][/\ PlainMapSteps
       /\ keys(data') = {k \in Keys : DictGet(data', k) # None}]_vars

\* C11 (amended): the store behaves as a plain map, and the key set is the set
\* of keys whose latest put is not followed by a delete, whatever value was put.
C11_PlainMap == [][PlainMapSteps]_vars

\* get returns None for a key that is in the key set, while a key holds the value "2"
C11_Witness ==
    /\ lastEvent = "get"
    /\ ret = None
    /\ arg.key \in keys(data)
    /\ \E k \in Keys : DictGet(data, k) = "2"

\* C12: delete(k) of a key absent from the mapping returns false and changes
\* nothing: no record is appended, no segment file grows or is created, and
\* wal.seq_num, the mapping, low_water_mark and the snapshot are unchanged; a
\* delete that does log is a delete of a present key.
C12_DeleteAbsentChangesNothing ==
    [][/\ (lastEvent' = "delete_miss") =>
            (/\ ~DictHas(data, arg'.key)
             /\ ret' = False
             /\ wrote' = <<>>
             /\ files' = files
             /\ current_file' = current_file
             /\ seq_num' = seq_num
             /\ data' = data
             /\ low_water_mark' = low_water_mark
             /\ snapshot' = snapshot)
       /\ (lastEvent' = "delete_log") => DictHas(data, arg'.key)]_vars

\* delete of an absent key on a store with records, a snapshot and a mark
C12_Witness ==
    /\ lastEvent = "delete_miss"
    /\ ret = False
    /\ ~DictHas(data, arg.key)
    /\ snapshot.state = "ok"
    /\ low_water_mark > 0
    /\ \E n \in DOMAIN files : Len(files[n]) > 0

\* C13: get(k) does not raise and does not touch the WAL: it returns the mapped
\* value, or None for an absent key, and leaves the mapping, wal.seq_num, the
\* segment files, low_water_mark and the snapshot unchanged.
C13_GetReadsOnly ==
    [][(lastEvent' = "get") =>
            (/\ \A i \in 1..Len(data) : data[i].key = arg'.key => ret' = data[i].value
             /\ (\A i \in 1..Len(data) : data[i].key # arg'.key) => ret' = None
             /\ pc' = "idle"
             /\ wrote' = <<>>
             /\ data' = data
             /\ seq_num' = seq_num
             /\ files' = files
             /\ current_file' = current_file
             /\ low_water_mark' = low_water_mark
             /\ snapshot' = snapshot)]_vars

\* get of an absent key, next to a mapped key, on a store with a snapshot and a mark
C13_Witness ==
    /\ lastEvent = "get"
    /\ arg.key \notin keys(data)
    /\ ret = None
    /\ keys(data) # {}
    /\ snapshot.state = "ok"
    /\ low_water_mark > 0

\* C14: WAL.append returns the seq_num stored in the record it just wrote, for
\* every append, including one that triggers segment rotation.
C14_AppendReturnsRecordSeqNum ==
    lastEvent = "append" => ret = wrote[Len(wrote)].seq_num

\* C15: after checkpoint() has returned, then put/delete operations w1..wn, then
\* a compactor iteration, read_all_entries returns exactly the n records of
\* w1..wn: the checkpoint adds no record and no pre-checkpoint record remains.
C15_WalHoldsOnlyPostCheckpointRecords ==
    (lastEvent = "compact" /\ afterCkpt.on) => read_all_entries(files) = afterCkpt.recs

\* C16: the snapshot is replaced atomically: when the process dies at any point
\* of checkpoint(), snapshot.json is afterwards absent or a complete snapshot,
\* never an empty or partially written file, and the store opens again.
C16_SnapshotNeverPartial ==
    (lastEvent = "crash") => (snapshot.state \in {"absent", "ok"} /\ pc = "idle")

\* largest seq_num of the records of a non-empty segment
MaxSeqNum(es) == CHOOSE s \in {es[i].seq_num : i \in 1..Len(es)} :
                     \A i \in 1..Len(es) : es[i].seq_num <= s

\* C17: after checkpoint() has returned, with no put or delete since, one
\* iteration of the compactor leaves no segment file whose largest record
\* seq_num is strictly below low_water_mark.
C17_CompactorClearsBelowMark ==
    (lastEvent = "compact" /\ afterCkpt.on /\ afterCkpt.recs = <<>>) =>
        \A n \in DOMAIN files :
            files[n] # <<>> => MaxSeqNum(files[n]) >= low_water_mark

\* the last call of read_all_entries has ended, with a list or with an exception
ReadEnded == lastEvent \in {"read_all", "read_all_raised"}

\* C18: when the final segment has been truncated by n bytes, 1 <= n < size of
\* its last record + 4, read_all_entries does not raise and returns every
\* record except the last one.
C18_TruncatedTailIsDropped ==
    (/\ ReadEnded
     /\ torn.count = 1
     /\ torn.kind = "truncate"
     /\ torn.segment = FinalSegment(torn.names)
     /\ wrote = <<>>) =>
        (lastEvent = "read_all" /\ entries = torn.base)

\* C19: when a WAL is reopened on a directory whose final segment ends in a torn
\* record, the torn bytes count as never appended: a later read_all_entries
\* returns the complete records that preceded the torn tail, followed by every
\* record appended after the reopen.
C19_AppendsAfterTornTailAreRead ==
    (/\ ReadEnded
     /\ torn.count = 1
     /\ torn.kind = "torn_append"
     /\ wrote # <<>>) =>
        (lastEvent = "read_all" /\ entries = torn.base \o wrote)

\* C20: a torn record in a segment other than the last one is fatal:
\* read_all_entries raises instead of returning a list that omits the rest of
\* that segment.
C20_TornInEarlierSegmentIsFatal ==
    (/\ ReadEnded
     /\ \E n \in DOMAIN files :
            /\ n # FinalSegment(DOMAIN files)
            /\ \E i \in 1..Len(files[n]) : IsTorn(files[n][i])) =>
        lastEvent = "read_all_raised"

\* ------------------------------------------------------------------ codec
EntryFields == {"seq_num", "op_type", "key", "value", "timestamp", "checksum",
                "format_version"}

\* C21: changing the stored value of any one field of a stored record, or its
\* algorithm byte, while leaving the rest as written, makes decoding of that
\* record fail with the checksum error.
C21_AlteredPayloadFailsChecksum ==
    (codec.stage = "decoded" /\ codec.altered.kind \in {"field", "algo"}) =>
        (~codec.result.ok /\ codec.result.error = "ChecksumError")

\* C22: for every log entry, either op_type, either compression type,
\* deserialize(serialize(r)) succeeds, its checksum verifies, and it equals r in
\* seq_num, op_type, key, value, timestamp, checksum and format_version.
C22_RoundTrip ==
    (codec.stage = "decoded" /\ codec.altered.kind = "none") =>
        /\ codec.result.ok
        /\ codec.result.entry.checksum = calculate_checksum(codec.result.entry)
        /\ \A f \in EntryFields : codec.result.entry[f] = codec.entry[f]


RequiredFields == {"seq_num", "op_type", "key", "timestamp", "checksum"}

\* C30: a record whose format_version is not 1, or that lacks one of the fields
\* seq_num, op_type, key, timestamp or checksum, or whose op_type is not 1 or 2,
\* makes deserialize raise and is never returned as an entry.
C30_ForeignFormatIsRejected ==
    (/\ codec.stage = "decoded"
     /\ \/ /\ "format_version" \in DOMAIN codec.payload.json
           /\ codec.payload.json.format_version # CURRENT_FORMAT_VERSION
        \/ \E f \in RequiredFields : f \notin DOMAIN codec.payload.json
        \/ /\ "op_type" \in DOMAIN codec.payload.json
           /\ codec.payload.json.op_type \notin {1, 2})
    => ~codec.result.ok


\* ---------------------------------------------------------------- threads
\* whole records in the log directory
WholeRecords ==
    UNION {{files[n][i] : i \in {j \in 1..Len(files[n]) : ~IsTorn(files[n][j])}} :
           n \in DOMAIN files}

\* C23: two put calls issued concurrently by different threads produce two log
\* records with distinct seq_nums ordered as the threads acquired the store lock,
\* each record is written completely before the other begins, and the mapping
\* afterwards holds for each key the value of the record with the larger seq_num.
C23_ConcurrentPutsAreSerialized ==
    /\ \A i, j \in 1..Len(threads.acquired) :
           i < j => threads.acquired[i].seq_num < threads.acquired[j].seq_num
    /\ \A n \in DOMAIN files : \A i \in 1..Len(files[n]) :
           IsTorn(files[n][i]) =>
               /\ i = Len(files[n])
               /\ lock \in Threads
               /\ threads.call[lock].pc = "append"
               /\ threads.call[lock].seq_num = files[n][i].seq_num
    /\ \A i \in 1..Len(threads.acquired) :
           (\/ threads.call[threads.acquired[i].thread].pc \in {"idle", "waiting", "mem"}
            \/ i < Len(threads.acquired))
               => \E e \in WholeRecords : e.seq_num = threads.acquired[i].seq_num
    /\ (\A t \in Threads : threads.call[t].pc \in {"idle", "waiting"}) =>
           \A e \in WholeRecords :
               (\A o \in WholeRecords : o.key = e.key => o.seq_num <= e.seq_num)
                   => DictHas(data, e.key) /\ DictGet(data, e.key) = e.value

\* one thread is writing its record while the other, which has written one before,
\* waits for the lock with a put of the same key
C23_Witness ==
    /\ threads.call["t1"].pc = "append"
    /\ threads.call["t2"].pc = "waiting"
    /\ threads.call["t1"].key = threads.call["t2"].key
    /\ threads.call["t1"].value # threads.call["t2"].value
    /\ \E i \in 1..Len(threads.acquired) : threads.acquired[i].thread = "t2"
    /\ DictHas(data, threads.call["t1"].key)


\* ---------------------------------------------------------- failing appends
\* C24: if the WAL append inside put or delete fails with an I/O error, the error
\* propagates to the caller and the in-memory mapping is exactly what it was
\* before the call: the key is neither set nor removed.
C24_FailedAppendLeavesMapping ==
    [][(lastEvent' \in {"put_failed", "delete_failed"} /\ torn'.count > torn.count) =>
            (/\ ret' \in {"OSError", "ValueError"}
             /\ data' = data
             /\ lock' = "free"
             /\ pc' = "idle")]_vars

\* a put of a new key has failed on a store that maps the other key, with a part
\* of the frame left in the segment
C24_Witness ==
    /\ lastEvent = "put_failed"
    /\ ret = "OSError"
    /\ ~DictHas(data, arg.key)
    /\ Len(data) > 0
    /\ \E n \in DOMAIN files : \E i \in 1..Len(files[n]) : IsTorn(files[n][i])


\* ------------------------------------------------------------ opening a WAL
\* the numerically largest segment number in the directory
LargestSegment == CHOOSE n \in DOMAIN files : \A m \in DOMAIN files : m <= n

\* C25: when a WAL is opened, seq_num is set to the numerically largest sequence
\* number among the existing <n>.log file names, and the segment opened for
\* appending is the one with that largest number, also for directories with
\* segment numbers of different digit counts.
C25_OpenTakesLargestSegment ==
    (lastEvent = "wal_reopen") =>
        (/\ seq_num = LargestSegment
         /\ current_file.name = LargestSegment
         /\ current_file.linked)


\* records in the segment files of the directory
RecordsOnDisk == UNION {{files[n][i] : i \in 1..Len(files[n])} : n \in DOMAIN files}

\* C26: after the KeyValueStore constructor returns, wal.seq_num is at least the
\* snapshot's seq_num and at least the seq_num of every record replayed from the
\* log, so the first append after a reopen gets a seq_num larger than every
\* record already on disk.
C26_ConstructorSeqNumCoversDisk ==
    (lastEvent \in {"reopen", "crash"} /\ pc = "idle") =>
        (/\ seq_num >= get_snapshot_seq_num(snapshot)
         /\ \A e \in RecordsOnDisk : seq_num >= e.seq_num)


\* ----------------------------------------------------------------- rotation
\* C27: rotation keeps file order equal to record order: whenever an append
\* leaves the active segment larger than segment_size, the segment is closed,
\* seq_num is incremented by one and <seq_num>.log becomes the active segment;
\* in every reachable directory, for segments named f1 < f2 every record in
\* f1.log has a smaller seq_num than every record in f2.log, and every record in
\* f.log has a seq_num greater than f.
C27_FileOrderIsRecordOrder ==
    /\ \A f1, f2 \in DOMAIN files :
           f1 < f2 => \A i \in 1..Len(files[f1]), j \in 1..Len(files[f2]) :
                          files[f1][i].seq_num < files[f2][j].seq_num
    /\ \A f \in DOMAIN files : \A i \in 1..Len(files[f]) : files[f][i].seq_num > f


\* --------------------------------------------------------------- checkpoint
\* C28: in every execution of checkpoint(), under any interleaving with other
\* threads, low_water_mark is set to the seq_num written into the snapshot and
\* the freshness check made inside checkpoint succeeds.
C28_CheckpointMarkIsSnapshotSeqNum ==
    [][(lastEvent' = "ckpt_compact") =>
            (/\ snapshot'.state = "ok"
             /\ low_water_mark' = snapshot'.seq_num
             /\ is_snapshot_fresh(get_snapshot_seq_num(snapshot'), seq_num)
             /\ del'.called
             /\ del'.by = "checkpoint")]_vars

\* checkpoint has set the mark on a store with records, where the mark moved
C28_Witness ==
    /\ lastEvent = "ckpt_compact"
    /\ pc = "ckpt_newwal"
    /\ low_water_mark > 0
    /\ low_water_mark = snapshot.seq_num
    /\ Len(data) > 0


\* C29: checkpoint() does not change the WAL's sequence number or the in-memory
\* mapping: when it returns, wal.seq_num equals the seq_num recorded in the
\* snapshot it just wrote, the active segment is the file named by that seq_num,
\* and the mapping equals the mapping before the call.
C29_CheckpointKeepsSeqNumAndMapping ==
    [][/\ (lastEvent' \in {"ckpt_open", "ckpt_dump", "ckpt_compact", "ckpt_newwal",
                           "ckpt_relog", "checkpoint"}) => data' = data
       /\ (lastEvent' = "checkpoint") =>
              (/\ seq_num' = snapshot'.seq_num
               /\ current_file'.name = snapshot'.seq_num
               /\ current_file'.linked)]_vars


\* ------------------------------------------------------------------- server
\* C31: the WAL is never used by two threads at once: no delete_old_segments
\* call of the compactor runs between the start and the end of a put, delete or
\* checkpoint of another thread, and the low_water_mark and snapshot seq_num the
\* compactor passes are the values current at the moment it deletes.
C31_CompactorRunsAlone ==
    [][/\ (threads'.cleanup.pc = "locked") => (pc' = "idle" /\ lock' = "compactor")
       /\ (threads.cleanup.pc = "locked" /\ threads'.cleanup.pc = "sleep") =>
              (/\ pc = "idle"
               /\ lock = "compactor"
               /\ del'.called
               /\ del'.by = "compactor"
               /\ del'.low_water_mark = low_water_mark
               /\ del'.snapshot_seq_num = get_snapshot_seq_num(snapshot)
               /\ del'.wal_seq_num = seq_num)]_vars

\* the compactor has removed a segment with the mark a checkpoint had set
C31_Witness ==
    /\ lastEvent = "compact"
    /\ threads.cleanup.pc = "sleep"
    /\ del.called
    /\ del.by = "compactor"
    /\ del.low_water_mark > 0
    /\ del.removed # {}


\* C32: once the server's running flag has been set to false by stop(), the
\* background compactor task eventually terminates, after starting at most one
\* further iteration.
C32_CompactorTerminatesAfterStop ==
    /\ [](~threads.running => <>(threads.cleanup.pc = "done"))
    /\ [](threads.cleanup.after_stop <= 1)
    /\ [](threads.cleanup.pc = "done" => ~threads.running)

\* the compactor has ended after one more iteration that followed stop()
C32_Witness ==
    /\ ~threads.running
    /\ threads.cleanup.pc = "done"
    /\ threads.cleanup.after_stop = 1
    /\ current_file = NoFile


\* C33: no call of delete_old_segments, whether from checkpoint or from a
\* compactor iteration, removes the segment file that the WAL currently has open
\* for appending; every record appended after such a call is present in a file
\* of the log directory.
C33_ActiveSegmentIsNeverRemoved ==
    /\ del.called => (current_file = NoFile \/ current_file.name \notin del.removed)
    /\ (current_file # NoFile) =>
           (/\ current_file.linked
            /\ current_file.name \in DOMAIN files
            /\ current_file.detached = <<>>)


\* ------------------------------------------------------------------- replay
\* C34: the constructor replays the whole log twice; for every snapshot and
\* every log, replaying the log twice over the snapshot data gives the same
\* mapping as replaying it once.
C34_SecondReplayChangesNothing ==
    (lastEvent = "opened") =>
        LET d0   == IF snapshot.state = "ok" THEN snapshot.data ELSE <<>>
            once == recover_from_wal(files, d0)
        IN  /\ pc = "idle"
            /\ AsMap(data) = AsMap(once)
            /\ keys(data) = keys(once)
            /\ AsMap(recover_from_wal(files, once)) = AsMap(once)

\* a store opened on a snapshot and a log that deletes a snapshot key and puts
\* another key twice
C34_Witness ==
    /\ lastEvent = "opened"
    /\ snapshot.state = "ok"
    /\ \E k \in keys(snapshot.data) : ~DictHas(data, k)
    /\ \E i, j \in 1..Len(files[0]) :
           /\ i < j
           /\ files[0][i].op_type = "PUT"
           /\ files[0][j].op_type = "PUT"
           /\ files[0][i].key = files[0][j].key
           /\ files[0][i].value # files[0][j].value

\* --------------------------------------------------- failing appends of a WAL
\* the appends that succeeded after the first failed one
LaterAppends == SubSeq(wrote, Len(torn.base) + 1, Len(wrote))

\* C35: an append that fails partway leaves wal.seq_num as it was before the call,
\* and every append that succeeds after it on the same WAL is in the list
\* read_all_entries returns
C35_FailedAppendDoesNoDamage ==
    [][/\ lastEvent' = "append_failed" /\ torn'.count > torn.count
            => seq_num' = seq_num
       /\ (/\ lastEvent' \in {"read_all", "read_all_raised"}
           /\ torn.kind = "append_failed"
           /\ LaterAppends # <<>>)
            => /\ lastEvent' = "read_all"
               /\ \A i \in 1..Len(LaterAppends) :
                      \E j \in 1..Len(entries') : entries'[j] = LaterAppends[i]
      ]_vars

\* the first half of C35 alone: seq_num after a failed append
C35_SeqNumIsRestored ==
    [][lastEvent' = "append_failed" /\ torn'.count > torn.count
            => seq_num' = seq_num]_vars

\* the second half of C35 alone: later appends are read back
C35_LaterAppendsAreRead ==
    [][(/\ lastEvent' \in {"read_all", "read_all_raised"}
        /\ torn.kind = "append_failed"
        /\ LaterAppends # <<>>)
            => /\ lastEvent' = "read_all"
               /\ \A i \in 1..Len(LaterAppends) :
                      \E j \in 1..Len(entries') : entries'[j] = LaterAppends[i]
      ]_vars
====
